---- MODULE Spec2Model ----
(***************************************************************************)
(* Expense splitter: the balance / settlement engine of app1.py (the web   *)
(* wizard: calc_with_equal_share, calc_with_itemized, settle) and of       *)
(* main.py (the desktop form: ExpenseSplitterApp.calculate_split), and the *)
(* wizard's session: main() of app1.py run by Streamlit, with its stages,  *)
(* saved groups, itemized toggle and share links.                          *)
(*                                                                         *)
(* Money.  Amounts entered by the user are whole cents (integers).  A      *)
(* share total/n or amount/len(participants) is a fraction of a cent, so   *)
(* unrounded values are kept in units of 1/Unit cent, Unit a common        *)
(* multiple of every divisor that can occur.  round(x, 2) maps units to    *)
(* cents.                                                                  *)
(*                                                                         *)
(* Floating point.  The code computes in binary doubles.  Two places see   *)
(* the representation error, and both are modelled as a choice over the    *)
(* outcomes doubles can give:                                              *)
(*   - round(x, 2) of a value exactly half way between two cents goes up   *)
(*     or down depending on the double nearest to x (round(0.075, 2) is    *)
(*     0.08, round(0.125, 2) is 0.12); tieUp[k] fixes the direction for    *)
(*     participant k, for both front-ends alike, since they evaluate the   *)
(*     same expression;                                                    *)
(*   - a remainder of exactly one cent compares either way with 0.01       *)
(*     (0.03 - 0.02 < 0.01 but 66.67 - 66.66 > 0.01), and a remainder that *)
(*     is zero in cents is exactly 0.0 only for the side that was the      *)
(*     minimum (x - x), while the other side may keep a residue of 1e-17.  *)
(***************************************************************************)
EXTENDS Integers, Sequences, FiniteSets

VARIABLES
    mode,          \* "equal" | "itemized": app.use_itemized
    names,         \* ordered participant list; names[k] is the name at index k
    paid,          \* paid amounts, cents
    total_amount,  \* equal split: the total entered, cents
    items,         \* itemized split: sequence of [amount, participants]
    tieUp,         \* direction round(x, 2) takes at an exact half cent, per index
    owed,          \* result of calc_*: owed per participant, in units
    item_total,    \* result of calc_with_itemized: total_amount, cents
    balances,      \* result of calc_*: balances, cents
    creditors,     \* settle: <<index, remaining>> pairs
    debtors,       \* settle: <<index, remaining>> pairs
    i,             \* settle: debtor cursor (0-based, as in the code)
    j,             \* settle: creditor cursor
    lines,         \* settle: the transfers emitted so far
    pc,            \* wizard: "calc" | "settle" | "loop" | "done" | "raised"
    d_balances,    \* desktop calculate_split: balances
    d_creditors,   \* desktop: creditors (input order)
    d_debtors,     \* desktop: debtors (input order)
    d_i,           \* desktop: debtor cursor
    d_j,           \* desktop: creditor cursor
    d_lines,       \* desktop: the transfers inserted into result_text
    d_pc,          \* desktop: "idle" | "loop" | "done" | "raised"
    app,           \* wizard session: st.session_state.app, an AppState
    groups,        \* wizard session: st.session_state.groups
    group_loader,  \* wizard session: the "Load group" selectbox's value
    itemized_toggle, \* wizard session: the "Use itemized expenses" toggle's value
    query,         \* wizard session: the "state" query parameter of the page URL
    link,          \* wizard session: the share link the page shows
    run,           \* wizard session: "pending" (a script run is due) | "idle" | "raised"
    run_count      \* wizard session: script runs so far, modulo 2

vars == <<mode, names, paid, total_amount, items, tieUp, owed, item_total,
          balances, creditors, debtors, i, j, lines, pc,
          d_balances, d_creditors, d_debtors, d_i, d_j, d_lines, d_pc,
          app, groups, group_loader, itemized_toggle, query, link, run,
          run_count>>

inputs == <<mode, names, paid, total_amount, items, tieUp>>
wizard == <<owed, item_total, balances, creditors, debtors, i, j, lines, pc>>
desktop == <<d_balances, d_creditors, d_debtors, d_i, d_j, d_lines, d_pc>>
session == <<app, groups, group_loader, itemized_toggle, query, link, run,
             run_count>>

----------------------------------------------------------------------------
(* Bounds of the model *)

MaxPeople == 3
MaxItems == 2

\* paid amounts and totals tried, in cents
PaidValues == 0..5
TotalValues == -1..9
ItemPaidValues == 0..1
ItemAmounts == -1..2

\* names usable in an item: the master list's names and one outsider
PersonNames == 1..(MaxPeople + 1)

\* the wizard's inputs: people counts, and amounts in whole currency units
\* (the number inputs step by 1.0), in cents
MaxWizardPeople == 2
MaxWizardItems == 1
WizardPeople == 1..MaxWizardPeople
WizardAmounts == {0, 200}
WizardPaid == {0, 200}

----------------------------------------------------------------------------
(* Arithmetic helpers *)

RECURSIVE Fact(_)
Fact(n) == IF n <= 1 THEN 1 ELSE n * Fact(n - 1)

\* units per cent: every divisor 1..MaxPeople+1 divides it
Unit == Fact(MaxPeople + 1)

Min(a, b) == IF a <= b THEN a ELSE b

Abs(a) == IF a < 0 THEN -a ELSE a

RECURSIVE SumSeq(_)
SumSeq(s) == IF s = <<>> THEN 0 ELSE Head(s) + SumSeq(Tail(s))

SeqsUpTo(S, k) == UNION {[1..m -> S] : m \in 0..k}

\* x is exactly half way between two cents
IsTie(x) == 2 * (x % Unit) = Unit

\* round(x, 2): x in units, result in cents; up decides an exact half cent
Round2(x, up) ==
    LET q == x \div Unit
        r == x % Unit
    IN  IF 2 * r < Unit THEN q
        ELSE IF 2 * r > Unit THEN q + 1
        ELSE IF up THEN q + 1 ELSE q

\* zip(a, b): pairs up to the shorter length
ZipLen(a, b) == Min(Len(a), Len(b))

----------------------------------------------------------------------------
(* calc_with_equal_share, calc_with_itemized: the owed calculators and the *)
(* balance derivation                                                      *)

\* a slip: total_amount // n, floor division to whole currency units
EqualOwedFloorDiv(total, nms) ==
    [k \in 1..Len(nms) |-> ((total \div 100) \div Len(nms)) * 100 * Unit]

\* owed_each = [total_amount / n] * n, in units; n = 0 is handled by the caller
EqualOwed(total, nms) ==
    [k \in 1..Len(nms) |-> (total * Unit) \div Len(nms)]

\* [round(p - o, 2) for p, o in zip(paid, owed)]
Derive(pd, ow, up) ==
    [k \in 1..ZipLen(pd, ow) |-> Round2(pd[k] * Unit - ow[k], up[k])]

\* the condition under which the item loop skips an item
SkipItem(it) == it.amount <= 0 \/ it.participants = {}

\* a slip: the amount is divided among the listed names that are in the
\* master list, so nothing is dropped
AddSharesAmongKnown(acc, it, nms) ==
    LET known == {k \in 1..Len(nms) : nms[k] \in it.participants}
    IN  [k \in 1..Len(nms) |->
            IF k \in known
            THEN acc[k] + (it.amount * Unit) \div Cardinality(known)
            ELSE acc[k]]

\* one item's effect on the owed accumulator: "if person in idx: owed[idx[person]] += share"
AddShares(acc, it, nms) ==
    LET share == (it.amount * Unit) \div Cardinality(it.participants)
    IN  [k \in 1..Len(nms) |->
            IF nms[k] \in it.participants THEN acc[k] + share ELSE acc[k]]

\* a slip: total_amount += share
AddTotalShare(tot, it) == tot + (it.amount \div Cardinality(it.participants))

\* one item's effect on total_amount
AddTotal(tot, it) == tot + it.amount

\* the loop "for it in items" over the accumulators owed (units) and total_amount
RECURSIVE ItemLoop(_, _, _)
ItemLoop(its, nms, acc) ==
    IF its = <<>> THEN acc
    ELSE LET it == Head(its)
         IN  IF SkipItem(it) THEN ItemLoop(Tail(its), nms, acc)
             ELSE ItemLoop(Tail(its), nms,
                     [owed |-> AddShares(acc.owed, it, nms),
                      total |-> AddTotal(acc.total, it)])

\* owed = [0.0] * n; total_amount = 0.0; then the loop
ItemAccumulate(its, nms) ==
    ItemLoop(its, nms, [owed |-> [k \in 1..Len(nms) |-> 0], total |-> 0])

\* owed = [round(x, 2) for x in owed], kept in units
ItemOwed(its, nms, up) ==
    LET acc == ItemAccumulate(its, nms)
    IN  [k \in 1..Len(nms) |-> Round2(acc.owed[k], up[k]) * Unit]

\* the value round(x, 2) is applied to for index k, where rounding can tie
RawValue(md, tot, its, pd, nms, k) ==
    IF md = "equal"
    THEN IF k <= ZipLen(pd, nms) THEN pd[k] * Unit - EqualOwed(tot, nms)[k] ELSE 0
    ELSE IF k <= Len(nms) THEN ItemAccumulate(its, nms).owed[k] ELSE 0

----------------------------------------------------------------------------
(* settle: partition, sort, greedy two-cursor matching *)

Pairs(bal) == [k \in 1..Len(bal) |-> <<k, bal[k]>>]

\* a slip: "if bal >= 0", a settled participant is listed as a creditor
IsCreditorOrSettled(p) == p[2] >= 0

\* "if bal > 0"
IsCreditor(p) == p[2] > 0

\* "if bal < 0"
IsDebtor(p) == p[2] < 0

\* [[i, bal] for i, bal in enumerate(balances) if bal > 0]
CreditorList(bal) == SelectSeq(Pairs(bal), IsCreditor)

\* [[i, -bal] for i, bal in enumerate(balances) if bal < 0]
DebtorList(bal) ==
    LET neg == SelectSeq(Pairs(bal), IsDebtor)
    IN  [k \in 1..Len(neg) |-> <<neg[k][1], -neg[k][2]>>]

\* a slip: x goes before the elements equal to it, so equal amounts come out
\* in reverse input order
RECURSIVE InsertDescBeforeEqual(_, _)
InsertDescBeforeEqual(x, s) ==
    IF s = <<>> THEN <<x>>
    ELSE IF Head(s)[2] > x[2] THEN <<Head(s)>> \o InsertDescBeforeEqual(x, Tail(s))
    ELSE <<x>> \o s

\* insert x into a list sorted descending by amount, after every element
\* that is at least as large: later equal elements stay later (stable)
RECURSIVE InsertDesc(_, _)
InsertDesc(x, s) ==
    IF s = <<>> THEN <<x>>
    ELSE IF Head(s)[2] >= x[2] THEN <<Head(s)>> \o InsertDesc(x, Tail(s))
    ELSE <<x>> \o s

RECURSIVE SortFrom(_, _)
SortFrom(s, acc) ==
    IF s = <<>> THEN acc ELSE SortFrom(Tail(s), InsertDesc(Head(s), acc))

\* sorted(s, key=lambda x: x[1], reverse=True): stable, descending
SortedDesc(s) == SortFrom(s, <<>>)

\* a slip: "if remaining < 0", no tolerance and no equality
SettledNegative(r) == {r < 0}

\* "if remaining < 0.01": the outcomes the comparison can have for a
\* remainder of r cents computed by a floating-point subtraction
Settled(r) ==
    IF r < 1 THEN {TRUE} ELSE IF r = 1 THEN BOOLEAN ELSE {FALSE}

\* a slip: pay_amt is rounded before it is subtracted, so that not even the
\* minimum side need reach exactly 0.0
ExactZeroAfterRounding(r, wasMin) == IF r # 0 THEN {FALSE} ELSE BOOLEAN

\* "if remaining == 0" (desktop): the minimum side is exactly 0.0; the other
\* side, when zero in cents, is 0.0 or a residue of rounding error
ExactZero(r, wasMin) ==
    IF r # 0 THEN {FALSE} ELSE IF wasMin THEN {TRUE} ELSE BOOLEAN

Transfer(d, amt, c) == [from |-> d, amt |-> amt, to |-> c]

\* a slip: the larger of the two remainders is paid
PayAmtMax(d_amt, c_amt) == IF d_amt >= c_amt THEN d_amt ELSE c_amt

\* pay_amt = min(d_amt, c_amt)
PayAmt(d_amt, c_amt) == Min(d_amt, c_amt)

----------------------------------------------------------------------------
(* Inputs *)

NamesOf(n) == [k \in 1..n |-> k]

ItemSet == [amount : ItemAmounts, participants : SUBSET PersonNames]

\* tieUp may be TRUE only where round(x, 2) really meets an exact half cent
TieChoices(md, tot, its, pd, nms) ==
    {t \in [1..MaxPeople -> BOOLEAN] :
        \A k \in 1..MaxPeople : t[k] => IsTie(RawValue(md, tot, its, pd, nms, k))}

\* the wizard's equal-share path and the desktop form: any names, any paid
\* list (a share link restores names and paid independently), any total
InitEqual ==
    /\ mode = "equal"
    /\ names \in {NamesOf(n) : n \in 0..MaxPeople}
    /\ paid \in SeqsUpTo(PaidValues, MaxPeople)
    /\ total_amount \in TotalValues
    /\ items = <<>>

InitItemized ==
    /\ mode = "itemized"
    /\ names \in {NamesOf(n) : n \in 0..MaxPeople}
    /\ paid \in SeqsUpTo(ItemPaidValues, MaxPeople)
    /\ total_amount = 0
    /\ items \in SeqsUpTo(ItemSet, MaxItems)

\* the two worked scenarios: 300 paid by the first of three; items of 100
\* for A, B and 50 for B, C with paid 100, 0, 50
InitScenario ==
    /\ names = NamesOf(3)
    /\ \/ /\ mode = "equal"
          /\ paid = <<30000, 0, 0>>
          /\ total_amount = 30000
          /\ items = <<>>
       \/ /\ mode = "itemized"
          /\ paid = <<10000, 0, 5000>>
          /\ total_amount = 0
          /\ items = <<[amount |-> 10000, participants |-> {1, 2}],
                       [amount |-> 5000, participants |-> {2, 3}]>>

\* nothing has been calculated yet
InitRest ==
    /\ tieUp \in TieChoices(mode, total_amount, items, paid, names)
    /\ owed = <<>>
    /\ item_total = 0
    /\ balances = <<>>
    /\ creditors = <<>>
    /\ debtors = <<>>
    /\ i = 0
    /\ j = 0
    /\ lines = <<>>
    /\ pc = "calc"
    /\ d_balances = <<>>
    /\ d_creditors = <<>>
    /\ d_debtors = <<>>
    /\ d_i = 0
    /\ d_j = 0
    /\ d_lines = <<>>
    /\ d_pc = "idle"

\* an optional value: None, or a value that is present
None == [some |-> FALSE, val |-> <<>>]
Some(v) == [some |-> TRUE, val |-> v]

\* AppState(names=[], paid=[], items=[]): the dataclass defaults
AppState ==
    [stage |-> 1, people |-> 1, amount |-> 0, names |-> <<>>, paid |-> <<>>,
     use_itemized |-> FALSE, items |-> <<>>, owed |-> None, balances |-> None]

\* a browser session opened on the page URL q: no app object yet, no groups,
\* no widget has a value, the first script run is due
NewSession(q) ==
    /\ app = AppState
    /\ groups = None
    /\ group_loader = "select"
    /\ itemized_toggle = "unset"
    /\ query = q
    /\ run = "pending"
    /\ run_count = 0

\* the session opened on the plain URL, before any share link exists
InitSession == NewSession(None) /\ link = None

Init == (InitEqual \/ InitItemized \/ InitScenario) /\ InitRest /\ InitSession

\* the equal-split inputs alone: what both front-ends accept
InitEqualSplit ==
    (InitEqual \/ (InitScenario /\ mode = "equal")) /\ InitRest /\ InitSession

\* the wizard session alone: the engine's own variables stay at rest
InitWizard ==
    /\ mode = "equal"
    /\ names = <<>>
    /\ paid = <<>>
    /\ total_amount = 0
    /\ items = <<>>
    /\ InitRest
    /\ InitSession

----------------------------------------------------------------------------
(* The web wizard: calc_with_equal_share / calc_with_itemized, then settle *)

\* calc_with_equal_share(total_amount, paid, names); total_amount / 0 raises
\* ZeroDivisionError
CalcWithEqualShare ==
    /\ pc = "calc"
    /\ mode = "equal"
    /\ IF Len(names) = 0
       THEN /\ pc' = "raised"
            /\ UNCHANGED <<owed, balances>>
       ELSE /\ owed' = EqualOwed(total_amount, names)
            /\ balances' = Derive(paid, EqualOwed(total_amount, names), tieUp)
            /\ pc' = "settle"
    /\ UNCHANGED <<item_total, creditors, debtors, i, j, lines>>
    /\ UNCHANGED <<inputs, desktop, session>>

\* calc_with_itemized(items, paid, names)
CalcWithItemized ==
    /\ pc = "calc"
    /\ mode = "itemized"
    /\ item_total' = ItemAccumulate(items, names).total
    /\ owed' = ItemOwed(items, names, tieUp)
    /\ balances' = Derive(paid, ItemOwed(items, names, tieUp), tieUp)
    /\ pc' = "settle"
    /\ UNCHANGED <<creditors, debtors, i, j, lines>>
    /\ UNCHANGED <<inputs, desktop, session>>

\* settle, up to the loop: partition, sort, i = j = 0, lines = []
SettleSort ==
    /\ pc = "settle"
    /\ creditors' = SortedDesc(CreditorList(balances))
    /\ debtors' = SortedDesc(DebtorList(balances))
    /\ i' = 0
    /\ j' = 0
    /\ lines' = <<>>
    /\ pc' = "loop"
    /\ UNCHANGED <<owed, item_total, balances>>
    /\ UNCHANGED <<inputs, desktop, session>>

\* one iteration of "while i < len(debtors) and j < len(creditors)"
SettleStep ==
    /\ pc = "loop"
    /\ i < Len(debtors)
    /\ j < Len(creditors)
    /\ LET d_idx == debtors[i + 1][1]
           d_amt == debtors[i + 1][2]
           c_idx == creditors[j + 1][1]
           c_amt == creditors[j + 1][2]
           pay_amt == PayAmt(d_amt, c_amt)
       IN  /\ lines' = Append(lines, Transfer(d_idx, pay_amt, c_idx))
           /\ debtors' = [debtors EXCEPT ![i + 1][2] = d_amt - pay_amt]
           /\ creditors' = [creditors EXCEPT ![j + 1][2] = c_amt - pay_amt]
           /\ \E di \in Settled(d_amt - pay_amt) :
                 i' = IF di THEN i + 1 ELSE i
           /\ \E cj \in Settled(c_amt - pay_amt) :
                 j' = IF cj THEN j + 1 ELSE j
    /\ UNCHANGED <<owed, item_total, balances, pc>>
    /\ UNCHANGED <<inputs, desktop, session>>

\* the loop condition fails: settle returns
SettleReturn ==
    /\ pc = "loop"
    /\ ~(i < Len(debtors) /\ j < Len(creditors))
    /\ pc' = "done"
    /\ UNCHANGED <<owed, item_total, balances, creditors, debtors, i, j, lines>>
    /\ UNCHANGED <<inputs, desktop, session>>

----------------------------------------------------------------------------
(* The desktop form: ExpenseSplitterApp.calculate_split, given the same    *)
(* names, paid amounts and total (total_people = len(names); one paid      *)
(* entry per name).  It is run after the wizard's computation so that the  *)
(* two results can be compared; the two share no state.                    *)

WizardFinished == pc \in {"done", "raised"}

\* calculate_split up to the loop: equal_share, balances, creditors, debtors
CalculateSplit ==
    /\ d_pc = "idle"
    /\ WizardFinished
    /\ mode = "equal"
    /\ Len(paid) = Len(names)
    /\ IF Len(names) = 0
       THEN /\ d_pc' = "raised"
            /\ UNCHANGED <<d_balances, d_creditors, d_debtors>>
       ELSE LET bal == Derive(paid, EqualOwed(total_amount, names), tieUp)
            IN  /\ d_balances' = bal
                /\ d_creditors' = CreditorList(bal)
                /\ d_debtors' = DebtorList(bal)
                /\ d_pc' = "loop"
    /\ d_i' = 0
    /\ d_j' = 0
    /\ d_lines' = <<>>
    /\ UNCHANGED <<inputs, wizard, session>>

\* one iteration of the desktop loop
DesktopStep ==
    /\ d_pc = "loop"
    /\ d_i < Len(d_debtors)
    /\ d_j < Len(d_creditors)
    /\ LET d_idx == d_debtors[d_i + 1][1]
           d_amt == d_debtors[d_i + 1][2]
           c_idx == d_creditors[d_j + 1][1]
           c_amt == d_creditors[d_j + 1][2]
           pay_amt == Min(d_amt, c_amt)
       IN  /\ d_lines' = Append(d_lines, Transfer(d_idx, pay_amt, c_idx))
           /\ d_debtors' = [d_debtors EXCEPT ![d_i + 1][2] = d_amt - pay_amt]
           /\ d_creditors' = [d_creditors EXCEPT ![d_j + 1][2] = c_amt - pay_amt]
           /\ \E dMin \in (IF d_amt = c_amt THEN BOOLEAN ELSE {d_amt < c_amt}) :
                 /\ \E di \in ExactZero(d_amt - pay_amt, dMin) :
                       d_i' = IF di THEN d_i + 1 ELSE d_i
                 /\ \E cj \in ExactZero(c_amt - pay_amt, ~dMin \/ d_amt = c_amt) :
                       d_j' = IF cj THEN d_j + 1 ELSE d_j
    /\ UNCHANGED <<d_balances, d_pc>>
    /\ UNCHANGED <<inputs, wizard, session>>

\* the loop condition fails: calculate_split returns
DesktopReturn ==
    /\ d_pc = "loop"
    /\ ~(d_i < Len(d_debtors) /\ d_j < Len(d_creditors))
    /\ d_pc' = "done"
    /\ UNCHANGED <<d_balances, d_creditors, d_debtors, d_i, d_j, d_lines>>
    /\ UNCHANGED <<inputs, wizard, session>>

----------------------------------------------------------------------------
(* The web wizard: main() of app1.py, the script Streamlit runs from the   *)
(* top once per user interaction and once more after every st.rerun().     *)
(* The session (app, groups, the values of keyed widgets) outlives a run;  *)
(* a button is True only in the run its click caused.  Names are the       *)
(* defaults "Person k" (k here) or a saved group's; typing into the name   *)
(* fields and the group file upload are left out, so no name is blank.     *)

Blank == 0

GroupKeys == {"G"}

NoEvent == [type |-> "none"]

\* what a run hands back: the app object, the toggle's value, and how the
\* run ended ("rerun": st.rerun(); "rendered": the end of main; "raised")
Outcome(a, tg, how) == [app |-> a, toggle |-> tg, run |-> how]

\* calc_with_equal_share(float(app.amount), app.paid, app.names) stored
StoreEqual(a) ==
    [a EXCEPT !.owed = Some(EqualOwed(a.amount, a.names)),
              !.balances = Some(Derive(a.paid, EqualOwed(a.amount, a.names), tieUp))]

\* calc_with_itemized(items, app.paid, app.names) stored, amount included
StoreItemized(a) ==
    [a EXCEPT !.amount = ItemAccumulate(a.items, a.names).total,
              !.owed = Some(ItemOwed(a.items, a.names, tieUp)),
              !.balances = Some(Derive(a.paid, ItemOwed(a.items, a.names, tieUp), tieUp))]

\* the fields a share link carries (share_state); encode_state/decode_state
\* take them through JSON and base64 and give back the same values
SharePayload(a) ==
    [stage |-> 3, names |-> a.names, paid |-> a.paid, items |-> a.items,
     use_itemized |-> a.use_itemized, amount |-> a.amount]

\* "if 'state' in q and app.stage == 1"
LoadsShared(a, q) == q.some /\ a.stage = 1

\* the share-link branch up to the recalculation: the decoded fields replace
\* the app's; owed and balances are not part of the link
SharedFields(a, d) ==
    [a EXCEPT !.names = d.names,
              !.people = IF d.names # <<>> THEN Len(d.names) ELSE 1,
              !.paid = d.paid,
              !.use_itemized = d.use_itemized,
              !.items = d.items,
              !.amount = d.amount,
              !.stage = d.stage]

\* "if app.stage == 3 and (app.owed is None or app.balances is None)"
SharedNeedsCalc(b) == b.stage = 3 /\ (~b.owed.some \/ ~b.balances.some)

\* the share-link branch: it ends in st.rerun(), or in ZeroDivisionError
LoadShared(a, d, tg) ==
    LET b == SharedFields(a, d)
    IN  IF ~SharedNeedsCalc(b) THEN Outcome(b, tg, "rerun")
        ELSE IF b.use_itemized THEN Outcome(StoreItemized(b), tg, "rerun")
        ELSE IF Len(b.names) = 0 THEN Outcome(b, tg, "raised")
        ELSE Outcome(StoreEqual(b), tg, "rerun")

\* "if chosen and chosen != '- Select -'", inside "if st.session_state.groups"
GroupChosen(ldr) == groups.some /\ ldr # "select"

\* the group loader branch: it ends in st.rerun()
LoadGroup(a, tg) ==
    Outcome([a EXCEPT !.names = groups.val,
                      !.people = Len(groups.val),
                      !.stage = 2], tg, "rerun")

\* app.use_itemized = st.toggle(..., value=app.use_itemized, key=...): the
\* values the toggle can return.  It returns its own value, the one just
\* clicked included; when the code has changed app.use_itemized since the
\* toggle was last drawn, Streamlit either keeps the keyed widget's value or
\* rebuilds the widget from the new default, depending on its version.
ToggleReturns(a, ev, tg) ==
    IF tg = "unset" THEN {a.use_itemized}
    ELSE IF ev.type = "toggle" THEN {tg = "on"}
    ELSE IF (tg = "on") # a.use_itemized THEN BOOLEAN
    ELSE {a.use_itemized}

ToggleValue(u) == IF u THEN "on" ELSE "off"

\* stage 1: the "Next" button
Stage1(a, ev, tg) ==
    IF ~a.use_itemized /\ ev.type = "next" /\ ev.people > 0 /\ ev.amount > 0
    THEN Outcome([a EXCEPT !.people = ev.people, !.amount = ev.amount,
                           !.stage = 2], tg, "rerun")
    ELSE Outcome(a, tg, "rendered")

\* stage 2, first lines: names and paid are rebuilt when empty or of the
\* wrong length
Normalise(a) ==
    LET nm == IF a.names = <<>> \/ Len(a.names) # a.people
              THEN NamesOf(a.people) ELSE a.names
        pd == IF a.paid = <<>> \/ Len(a.paid) # a.people
              THEN [k \in 1..a.people |-> 0] ELSE a.paid
    IN  [a EXCEPT !.names = nm, !.paid = pd]

\* the "Calculate" branch
Calculate(a, tg) ==
    IF \E k \in 1..Len(a.names) : a.names[k] = Blank
    THEN Outcome(a, tg, "rendered")
    ELSE IF a.use_itemized
    THEN IF a.items = <<>>
         THEN Outcome(a, tg, "rendered")
         ELSE Outcome([StoreItemized(a) EXCEPT !.stage = 3], tg, "rerun")
    ELSE IF a.amount <= 0
         THEN Outcome(a, tg, "rendered")
         ELSE Outcome([StoreEqual(a) EXCEPT !.stage = 3], tg, "rerun")

\* stage 2: the paid inputs, the item editor, "Back" and "Calculate"
Stage2(a0, ev, tg) ==
    LET n == Normalise(a0)
        a == IF ev.type = "paid" THEN [n EXCEPT !.paid[ev.k] = ev.v] ELSE n
    IN  IF ev.type = "add_item" /\ a.use_itemized
        THEN IF ev.named /\ ev.amount > 0 /\ ev.part # {}
             THEN Outcome([a EXCEPT !.items =
                             Append(a.items, [amount |-> ev.amount,
                                              participants |-> ev.part])],
                          tg, "rerun")
             ELSE Outcome(a, tg, "rendered")
        ELSE IF ev.type = "clear_items" /\ a.use_itemized
        THEN Outcome([a EXCEPT !.items = <<>>], tg, "rerun")
        ELSE IF ev.type = "back"
        THEN Outcome([a EXCEPT !.stage = 1], tg, "rerun")
        ELSE IF ev.type = "calculate"
        THEN Calculate(a, tg)
        ELSE Outcome(a, tg, "rendered")

\* stage 3: the results are drawn from app.owed and app.balances as stored;
\* "Start Over" and "Edit Details"
Stage3(a, ev, tg) ==
    IF ev.type = "start_over" THEN Outcome(AppState, tg, "rerun")
    ELSE IF ev.type = "edit_details"
    THEN Outcome([a EXCEPT !.stage = 2], tg, "rerun")
    ELSE Outcome(a, tg, "rendered")

\* the three "if app.stage == ..." blocks; a block that changes the stage
\* ends in st.rerun(), so at most one of them runs
Stages(a, ev, tg) ==
    IF a.stage = 1 THEN Stage1(a, ev, tg)
    ELSE IF a.stage = 2 THEN Stage2(a, ev, tg)
    ELSE Stage3(a, ev, tg)

\* the sidebar and the stages were reached: neither the share-link branch nor
\* the group loader ended the run
ReachesSidebar(a, ldr, q) == ~LoadsShared(a, q) /\ ~GroupChosen(ldr)

\* one run of main(): the outcomes it can have for the event ev, the group
\* selector's value ldr, the toggle's value tg and the URL's state q
Script(a, ev, ldr, tg, q) ==
    IF LoadsShared(a, q) THEN {LoadShared(a, q.val, tg)}
    ELSE IF GroupChosen(ldr) THEN {LoadGroup(a, tg)}
    ELSE {Stages([a EXCEPT !.use_itemized = u], ev, ToggleValue(u)) :
             u \in ToggleReturns(a, ev, tg)}

\* the session after a run with outcome o; shows is the share link the run
\* drew on the page, None when the "Generate" button was not the event
Ran(o, shows) ==
    /\ app' = o.app
    /\ itemized_toggle' = o.toggle
    /\ run' = (IF o.run = "rerun" THEN "pending"
               ELSE IF o.run = "raised" THEN "raised" ELSE "idle")
    /\ run_count' = (run_count + 1) % 2
    /\ link' = shows

\* a run caused by the event ev, which changes nothing but the app object
\* and the toggle
RunOn(ev) ==
    /\ \E o \in Script(app, ev, group_loader, itemized_toggle, query) : Ran(o, None)
    /\ UNCHANGED <<groups, group_loader, query>>
    /\ UNCHANGED <<inputs, wizard, desktop>>

\* the run that st.rerun() asked for, or the first run of a session
Rerun ==
    /\ run = "pending"
    /\ RunOn(NoEvent)

\* the user picks an entry of the "Load group" selectbox
SelectGroup ==
    /\ run \in {"idle", "pending"}
    /\ groups.some
    /\ \E g \in {"select"} \cup GroupKeys :
          /\ g # group_loader
          /\ group_loader' = g
          /\ \E o \in Script(app, NoEvent, g, itemized_toggle, query) : Ran(o, None)
    /\ UNCHANGED <<groups, query>>
    /\ UNCHANGED <<inputs, wizard, desktop>>

\* the user clicks "Save Current Names as Group", with or without a name typed
SaveGroup ==
    /\ run = "idle"
    /\ \E typed \in BOOLEAN :
          groups' = IF ReachesSidebar(app, group_loader, query) /\ typed
                       /\ app.names # <<>>
                    THEN Some(app.names) ELSE groups
    /\ \E o \in Script(app, NoEvent, group_loader, itemized_toggle, query) :
          Ran(o, None)
    /\ UNCHANGED <<group_loader, query>>
    /\ UNCHANGED <<inputs, wizard, desktop>>

\* the user flips "Use itemized expenses"
ToggleItemized ==
    /\ run = "idle"
    /\ itemized_toggle # "unset"
    /\ LET tg == IF itemized_toggle = "on" THEN "off" ELSE "on"
       IN  \E o \in Script(app, [type |-> "toggle"], group_loader, tg, query) :
              Ran(o, None)
    /\ UNCHANGED <<groups, group_loader, query>>
    /\ UNCHANGED <<inputs, wizard, desktop>>

\* stage 1: the user sets people and amount and clicks "Next"
ClickNext ==
    /\ run = "idle"
    /\ app.stage = 1
    /\ ~app.use_itemized
    /\ \E p \in WizardPeople, amt \in WizardAmounts :
          RunOn([type |-> "next", people |-> p, amount |-> amt])

\* stage 2: the user changes one paid amount
EditPaid ==
    /\ run = "idle"
    /\ app.stage = 2
    /\ \E k \in 1..app.people, v \in WizardPaid :
          /\ v # app.paid[k]
          /\ RunOn([type |-> "paid", k |-> k, v |-> v])

\* stage 2, itemized: the user fills the item form and clicks "Add Item"
AddItem ==
    /\ run = "idle"
    /\ app.stage = 2
    /\ app.use_itemized
    /\ Len(app.items) < MaxWizardItems
    /\ \E named \in BOOLEAN, amt \in WizardAmounts,
          part \in SUBSET {app.names[k] : k \in 1..Len(app.names)} :
          RunOn([type |-> "add_item", named |-> named, amount |-> amt,
                 part |-> part])

\* stage 2, itemized: "Clear All Items"
ClearItems ==
    /\ run = "idle"
    /\ app.stage = 2
    /\ app.use_itemized
    /\ RunOn([type |-> "clear_items"])

\* stage 2: "Back"
ClickBack ==
    /\ run = "idle"
    /\ app.stage = 2
    /\ RunOn([type |-> "back"])

\* stage 2: "Calculate"
ClickCalculate ==
    /\ run = "idle"
    /\ app.stage = 2
    /\ RunOn([type |-> "calculate"])

\* stage 3: "Generate Share Link & QR", the App URL field left filled in
GenerateShareLink ==
    /\ run = "idle"
    /\ app.stage = 3
    /\ \E o \in Script(app, NoEvent, group_loader, itemized_toggle, query) :
          Ran(o, IF o.run = "rendered" /\ o.app.stage = 3
                 THEN Some(SharePayload(o.app)) ELSE None)
    /\ UNCHANGED <<groups, group_loader, query>>
    /\ UNCHANGED <<inputs, wizard, desktop>>

\* stage 3: "Start Over"
StartOver ==
    /\ run = "idle"
    /\ app.stage = 3
    /\ RunOn([type |-> "start_over"])

\* stage 3: "Edit Details"
EditDetails ==
    /\ run = "idle"
    /\ app.stage = 3
    /\ RunOn([type |-> "edit_details"])

\* someone opens the link the page shows: a new session on a URL that
\* carries the state
OpenShareLink ==
    /\ link.some
    /\ app' = AppState
    /\ groups' = None
    /\ group_loader' = "select"
    /\ itemized_toggle' = "unset"
    /\ query' = link
    /\ run' = "pending"
    /\ run_count' = 0
    /\ link' = None
    /\ UNCHANGED <<inputs, wizard, desktop>>

----------------------------------------------------------------------------

Next ==
    \/ CalcWithEqualShare
    \/ CalcWithItemized
    \/ SettleSort
    \/ SettleStep
    \/ SettleReturn
    \/ CalculateSplit
    \/ DesktopStep
    \/ DesktopReturn

Spec == Init /\ [][Next]_vars

\* the equal-split computation of the two front-ends
NextEqual ==
    \/ CalcWithEqualShare
    \/ SettleSort
    \/ SettleStep
    \/ SettleReturn
    \/ CalculateSplit
    \/ DesktopStep
    \/ DesktopReturn

EqualSpec == InitEqualSplit /\ [][NextEqual]_vars

\* the web wizard's session with saved groups (no share link is opened)
NextGroups ==
    \/ Rerun
    \/ SelectGroup
    \/ SaveGroup
    \/ ToggleItemized
    \/ ClickNext
    \/ EditPaid
    \/ AddItem
    \/ ClearItems
    \/ ClickBack
    \/ ClickCalculate
    \/ StartOver
    \/ EditDetails

GroupsSpec == InitWizard /\ [][NextGroups]_vars

\* Streamlit runs the script whenever a run is due; the user need not act
GroupsLive == GroupsSpec /\ WF_vars(Rerun)

\* the web wizard's sessions with share links (no group is saved)
NextSharing ==
    \/ Rerun
    \/ ToggleItemized
    \/ ClickNext
    \/ EditPaid
    \/ AddItem
    \/ ClearItems
    \/ ClickBack
    \/ ClickCalculate
    \/ GenerateShareLink
    \/ StartOver
    \/ EditDetails
    \/ OpenShareLink

SharingSpec == InitWizard /\ [][NextSharing]_vars

----------------------------------------------------------------------------
(* Vocabulary of the properties *)

\* a valid input: a non-empty participant list, one non-negative paid amount
\* per participant, and a positive total (equal split) or an item list
ValidInput ==
    /\ Len(names) >= 1
    /\ Len(paid) = Len(names)
    /\ \A k \in 1..Len(paid) : paid[k] >= 0
    /\ mode = "equal" => total_amount > 0

Calculated == pc \in {"settle", "loop", "done"}

RECURSIVE SumPaidBy(_, _)
SumPaidBy(ls, k) ==
    IF ls = <<>> THEN 0
    ELSE (IF Head(ls).from = k THEN Head(ls).amt ELSE 0) + SumPaidBy(Tail(ls), k)

RECURSIVE SumReceivedBy(_, _)
SumReceivedBy(ls, k) ==
    IF ls = <<>> THEN 0
    ELSE (IF Head(ls).to = k THEN Head(ls).amt ELSE 0) + SumReceivedBy(Tail(ls), k)

\* participant k's balance after every transfer of ls is applied: a payment
\* reduces the payer's debt, a receipt reduces the receiver's credit
Residual(bal, ls, k) == bal[k] + SumPaidBy(ls, k) - SumReceivedBy(ls, k)

DebtorIdx(bal) == {k \in 1..Len(bal) : bal[k] < 0}
CreditorIdx(bal) == {k \in 1..Len(bal) : bal[k] > 0}
NonZeroCount(bal) == Cardinality(DebtorIdx(bal) \cup CreditorIdx(bal))

----------------------------------------------------------------------------
(* C1: settlement correctness *)

\* C1 as stated: for any valid input, applying every transfer settle emitted
\* leaves every participant's balance within 0.01 of zero.
C1_AllWithinOneCent ==
    (pc = "done" /\ ValidInput) =>
        \A k \in 1..Len(balances) : Abs(Residual(balances, lines, k)) <= 1

\* C1 as amended: for any valid input, applying every transfer settle emitted
\* moves no balance past zero and leaves every debtor's balance, or every
\* creditor's balance, within 0.01 of zero; no participant is left further
\* from zero than |sum of the balances| + 0.01 * (participant count - 1).
C1_OneSideSettled ==
    (pc = "done" /\ ValidInput) =>
        /\ \A k \in DebtorIdx(balances) :
              /\ Residual(balances, lines, k) <= 0
              /\ Residual(balances, lines, k) >= balances[k]
        /\ \A k \in CreditorIdx(balances) :
              /\ Residual(balances, lines, k) >= 0
              /\ Residual(balances, lines, k) <= balances[k]
        /\ \/ \A k \in DebtorIdx(balances) : Abs(Residual(balances, lines, k)) <= 1
           \/ \A k \in CreditorIdx(balances) : Abs(Residual(balances, lines, k)) <= 1
        /\ \A k \in 1..Len(balances) :
              Abs(Residual(balances, lines, k))
                  <= Abs(SumSeq(balances)) + (Len(names) - 1)

\* a valid input settled by two or more transfers that leave the debtors at
\* zero and an unmatched cent on a creditor
C1_Witness ==
    /\ pc = "done"
    /\ ValidInput
    /\ Len(lines) >= 2
    /\ \A k \in DebtorIdx(balances) : Residual(balances, lines, k) = 0
    /\ \E k \in CreditorIdx(balances) : Residual(balances, lines, k) = 1

----------------------------------------------------------------------------
(* C2: conservation *)

\* every name an item lists is in the master participant list
ItemsKnown ==
    \A n \in 1..Len(items) :
        items[n].participants \subseteq {names[k] : k \in 1..Len(names)}

\* the total being split: the total entered, or the itemized grand total
SplitTotal == IF mode = "equal" THEN total_amount ELSE item_total

\* C2 as stated: for any valid input the balances returned by
\* calc_with_equal_share and calc_with_itemized sum to within
\* 0.01 * participantCount of zero.
C2_SumNearZero ==
    (Calculated /\ ValidInput) => Abs(SumSeq(balances)) <= Len(names)

\* C2 as amended: for any valid input whose paid amounts sum to the total
\* being split and whose items list only participants of the master list,
\* the balances sum to within 0.01 * participantCount of zero.
C2_Conservation ==
    (Calculated /\ ValidInput /\ ItemsKnown /\ SumSeq(paid) = SplitTotal) =>
        Abs(SumSeq(balances)) <= Len(names)

\* an equal split of a total the paid amounts add up to, whose rounded
\* balances do not sum to zero
C2_Witness ==
    /\ Calculated
    /\ ValidInput
    /\ mode = "equal"
    /\ SumSeq(paid) = total_amount
    /\ Len(balances) = 3
    /\ SumSeq(balances) # 0

----------------------------------------------------------------------------
(* C3: number of transfers *)

\* C3 as stated: for every balance vector, the all-zero vector included,
\* settle emits at most (number of nonzero balances) - 1 transfers.
C3_CountBelowNonZero ==
    pc \in {"loop", "done"} => Len(lines) <= NonZeroCount(balances) - 1

\* C3 as amended: settle emits no transfer when no balance is nonzero, and
\* otherwise at most (number of nonzero balances) - 1 transfers.
C3_TransferCount ==
    pc \in {"loop", "done"} =>
        IF NonZeroCount(balances) = 0
        THEN Len(lines) = 0
        ELSE Len(lines) <= NonZeroCount(balances) - 1

\* three nonzero balances settled by exactly two transfers
C3_Witness ==
    /\ pc = "done"
    /\ NonZeroCount(balances) = 3
    /\ Len(lines) = 2

----------------------------------------------------------------------------
(* C4: visiting order of settle *)

\* s lists exactly the indices in idx, by descending magnitude of their
\* balance, equal magnitudes in input order
DescStable(s, idx, bal) ==
    /\ Len(s) = Cardinality(idx)
    /\ {s[a][1] : a \in 1..Len(s)} = idx
    /\ \A a, b \in 1..Len(s) :
          a < b => \/ Abs(bal[s[a][1]]) > Abs(bal[s[b][1]])
                   \/ /\ Abs(bal[s[a][1]]) = Abs(bal[s[b][1]])
                      /\ s[a][1] < s[b][1]

\* the position of participant k in the list s
PosIn(s, k) == CHOOSE a \in 1..Len(s) : s[a][1] = k

\* C4: settle visits debtors in descending order of debt and creditors in
\* descending order of credit, equal magnitudes in input order: the sorted
\* lists are that order, the transfers follow it, and balances
\* [200, -100, -100] give exactly [P2 pays 100 to P1, P3 pays 100 to P1].
C4_VisitOrder ==
    pc \in {"loop", "done"} =>
        /\ DescStable(debtors, DebtorIdx(balances), balances)
        /\ DescStable(creditors, CreditorIdx(balances), balances)
        /\ \A a, b \in 1..Len(lines) :
              a < b => /\ PosIn(debtors, lines[a].from) <= PosIn(debtors, lines[b].from)
                       /\ PosIn(creditors, lines[a].to) <= PosIn(creditors, lines[b].to)
        /\ (pc = "done" /\ balances = <<20000, -10000, -10000>>) =>
              lines = <<Transfer(2, 10000, 1), Transfer(3, 10000, 1)>>

\* the worked example has run to the end: two debtors of equal debt
C4_Witness ==
    /\ pc = "done"
    /\ balances = <<20000, -10000, -10000>>
    /\ Len(lines) = 2

----------------------------------------------------------------------------
(* C5: the two front-ends *)

\* C5: for the same equal-split input, the desktop form and the web wizard
\* compute the same balances and emit the same transfers in the same order.
C5_SameResult ==
    (pc = "done" /\ d_pc = "done") =>
        /\ d_balances = balances
        /\ d_lines = lines

----------------------------------------------------------------------------
(* C6, C7: calc_with_itemized *)

\* an item the specification counts: positive amount, someone listed
CountedItem(it) == it.amount > 0 /\ it.participants # {}

\* item n's share for the name nm, in units: amount / |participants| when
\* the item is counted and lists nm, nothing otherwise
ShareOf(n, nm) ==
    IF CountedItem(items[n]) /\ nm \in items[n].participants
    THEN (items[n].amount * Unit) \div Cardinality(items[n].participants)
    ELSE 0

\* the sum of the shares of the items that list nm
SharesOf(nm) == SumSeq([n \in 1..Len(items) |-> ShareOf(n, nm)])

\* the sum of the amounts of the counted items
CountedTotal ==
    SumSeq([n \in 1..Len(items) |->
              IF CountedItem(items[n]) THEN items[n].amount ELSE 0])

ItemizedDone == mode = "itemized" /\ Calculated

MasterNames == {names[k] : k \in 1..Len(names)}

\* some counted item lists a name that is not in the master list
OutsiderListed ==
    \E n \in 1..Len(items) :
        CountedItem(items[n]) /\ ~(items[n].participants \subseteq MasterNames)

\* the shares assigned to participants of the master list, before rounding
AssignedShares == SumSeq([k \in 1..Len(names) |-> SharesOf(names[k])])

\* the shares of the listed names that are not in the master list
DroppedShares ==
    SumSeq([n \in 1..Len(items) |->
              IF CountedItem(items[n])
              THEN Cardinality(items[n].participants \ MasterNames)
                     * ((items[n].amount * Unit) \div Cardinality(items[n].participants))
              ELSE 0])

\* C7 as stated: when an item lists a participant who is not in the master
\* list, calc_with_itemized raises no error, the share is added to nobody's
\* owed amount, and totalAmount equals the sum of the owed shares assigned.
C7_TotalExcludesDropped ==
    (ItemizedDone /\ OutsiderListed /\ Len(names) >= 1) =>
        /\ \A k \in 1..Len(names) :
              owed[k] = Round2(SharesOf(names[k]), tieUp[k]) * Unit
        /\ item_total * Unit = AssignedShares

\* C7 as amended: when an item lists a participant who is not in the master
\* list, calc_with_itemized raises no error and the share is added to nobody's
\* owed amount, but totalAmount still counts the item's whole amount: it
\* exceeds the sum of the owed shares assigned by exactly the dropped shares.
C7_TotalKeepsDropped ==
    (mode = "itemized" /\ pc # "calc" /\ OutsiderListed) =>
        /\ pc # "raised"
        /\ SumSeq(ItemAccumulate(items, names).owed) = AssignedShares
        /\ item_total * Unit = AssignedShares + DroppedShares
        /\ DroppedShares > 0

\* an item shared by a participant and an outsider has been calculated
C7_Witness ==
    /\ ItemizedDone
    /\ OutsiderListed
    /\ \E n \in 1..Len(items) : \E k \in 1..Len(names) :
          /\ CountedItem(items[n])
          /\ names[k] \in items[n].participants
          /\ owed[k] > 0

----------------------------------------------------------------------------
(* C8, C9: rejected inputs *)

\* an equal split of a negative total, or among fewer than one participant
InvalidEqualInput == mode = "equal" /\ (Len(names) < 1 \/ total_amount < 0)

\* C8: the equal-share computation rejects a negative total or a participant
\* count below 1: neither front-end produces balances from such an input or
\* raises an unhandled exception.
C8_InvalidRejected ==
    InvalidEqualInput =>
        /\ pc \notin {"raised", "settle", "loop", "done"}
        /\ d_pc \notin {"raised", "loop", "done"}

\* an input that is valid but for the length of the paid list
ValidButForLength == Len(names) >= 1 /\ (mode = "equal" => total_amount > 0)

\* C9: balance derivation fails when paid and owed differ in length, and
\* never returns a balance vector shorter than the participant list.
C9_LengthChecked ==
    ValidButForLength =>
        /\ Len(paid) # Len(names) => ~Calculated
        /\ Calculated => Len(balances) >= Len(names)

----------------------------------------------------------------------------
(* C10: termination of the settlement loops *)

\* C10: each iteration of the settlement loop advances the debtor cursor, the
\* creditor cursor, or both, by one and never past the end of its list, and
\* no iteration follows once either cursor has exhausted its list; this holds
\* for the wizard's settle and for the desktop form's loop.
C10_CursorsAdvance ==
    [][ /\ (pc = "loop" /\ lines' # lines) =>
              /\ i < Len(debtors) /\ j < Len(creditors)
              /\ i' \in {i, i + 1} /\ j' \in {j, j + 1}
              /\ i' + j' > i + j
        /\ (pc = "loop" /\ (i >= Len(debtors) \/ j >= Len(creditors))) =>
              (pc' = "done" /\ lines' = lines)
        /\ (d_pc = "loop" /\ d_lines' # d_lines) =>
              /\ d_i < Len(d_debtors) /\ d_j < Len(d_creditors)
              /\ d_i' \in {d_i, d_i + 1} /\ d_j' \in {d_j, d_j + 1}
              /\ d_i' + d_j' > d_i + d_j
        /\ (d_pc = "loop" /\ (d_i >= Len(d_debtors) \/ d_j >= Len(d_creditors))) =>
              (d_pc' = "done" /\ d_lines' = d_lines)
      ]_vars

\* both loops have run two or more iterations and returned; the wizard's
\* ended with both cursors exhausted, the desktop's with one
C10_Witness ==
    /\ pc = "done"
    /\ Len(lines) >= 2
    /\ i = Len(debtors)
    /\ j = Len(creditors)
    /\ d_pc = "done"
    /\ Len(d_lines) >= 2
    /\ (d_i < Len(d_debtors) \/ d_j < Len(d_creditors))

----------------------------------------------------------------------------
(* C11: settle on balances that sum to zero *)

\* C11: when the balances passed to settle sum to exactly zero, the two
\* cursors exhaust their lists at the same step, and the loop ends with both
\* exhausted and every debtor and creditor remainder equal to zero.
C11_ExhaustTogether ==
    (pc \in {"loop", "done"} /\ SumSeq(balances) = 0) =>
        /\ (i = Len(debtors)) <=> (j = Len(creditors))
        /\ pc = "done" =>
              /\ i = Len(debtors)
              /\ j = Len(creditors)
              /\ \A a \in 1..Len(debtors) : debtors[a][2] = 0
              /\ \A a \in 1..Len(creditors) : creditors[a][2] = 0

----------------------------------------------------------------------------
(* C12: the transfers of settle *)

\* the debt participant k still has after the transfers ls
DebtLeft(bal, ls, k) == -Residual(bal, ls, k)

\* the credit participant k still has after the transfers ls
CreditLeft(bal, ls, k) == Residual(bal, ls, k)

\* C12: every transfer settle emits has a strictly positive amount, equal to
\* the minimum of what its payer still owes and what its receiver is still
\* owed at that step; after any prefix of the transfers no debtor has paid
\* more than their original debt, no creditor has received more than their
\* original credit, and no transfer has the same payer and receiver.
C12_TransferAmounts ==
    [][ (pc = "loop" /\ lines' # lines) =>
            LET t == lines'[Len(lines')]
            IN  /\ lines' = Append(lines, t)
                /\ t.amt > 0
                /\ t.amt = Min(DebtLeft(balances, lines, t.from),
                               CreditLeft(balances, lines, t.to))
                /\ t.from # t.to
                /\ t.from \in DebtorIdx(balances)
                /\ t.to \in CreditorIdx(balances)
                /\ \A k \in 1..Len(balances) :
                      /\ SumPaidBy(lines', k) <= (IF balances[k] < 0 THEN -balances[k] ELSE 0)
                      /\ SumReceivedBy(lines', k) <= (IF balances[k] > 0 THEN balances[k] ELSE 0)
      ]_vars

\* a debtor has paid off its debt in two transfers, to two creditors
C12_Witness ==
    /\ pc = "done"
    /\ Len(lines) = 2
    /\ lines[1].from = lines[2].from
    /\ lines[1].to # lines[2].to
    /\ lines[1].amt + lines[2].amt = -balances[lines[1].from]

----------------------------------------------------------------------------
(* C13: the wizard after a group is loaded *)

\* a saved group is selected in the "Load group" selectbox
GroupSelected == groups.some /\ group_loader # "select"

\* a script run has completed and drawn stage s
AtRest(s) == run = "idle" /\ app.stage = s

\* C13: once a saved group has been chosen in the "Load group" selector the
\* wizard comes to rest: a script run completes with stage 2 drawn or, after
\* a Calculate, with the stage-3 results drawn; the selector's persisted
\* choice does not send every run back to stage 2 and into another rerun.
C13_LoadedGroupRests == GroupSelected ~> (AtRest(2) \/ AtRest(3))

----------------------------------------------------------------------------
(* C14: the results drawn at stage 3 *)

\* what the calculation for the current split mode gives for the app's
\* current names, paid, amount and items
CurrentOwed(a) ==
    IF a.use_itemized THEN ItemOwed(a.items, a.names, tieUp)
    ELSE EqualOwed(a.amount, a.names)

CurrentBalances(a) == Derive(a.paid, CurrentOwed(a), tieUp)

\* the app object of the session that opens the share link d, after its
\* first run
Received(d) == LoadShared(AppState, d, "unset").app

\* C14: whenever stage 3 is drawn, app.owed and app.balances equal the result
\* of the calculation for the currently selected split mode applied to the
\* current names, paid, amount and items, whatever toggles of "Use itemized
\* expenses", Edit Details, Back and Calculate came before; and a share link
\* generated at stage 3 gives its receiver the owed amounts and balances the
\* sender saw.
C14_ResultsCurrent ==
    /\ AtRest(3) =>
          /\ app.owed = Some(CurrentOwed(app))
          /\ app.balances = Some(CurrentBalances(app))
    /\ (AtRest(3) /\ link.some) =>
          /\ Received(link.val).owed = app.owed
          /\ Received(link.val).balances = app.balances

====
